---- MODULE Spec2Model ----
(***************************************************************************)
(* A model of three pieces of UI glue of matrix-react-sdk:                 *)
(*   - utils/oidc/authorize.ts          (startOidcLogin, completeOidcLogin)*)
(*   - ExportE2eKeysDialog.tsx          (the key export dialog)            *)
(*   - SecureBackupPanel.tsx            (the secure backup settings panel) *)
(* Every async function is a process: one action per synchronous run of    *)
(* code between two awaits, and one environment action per outcome of the  *)
(* SDK promise it awaits.                                                  *)
(***************************************************************************)
EXTENDS Integers, Sequences, FiniteSets, TLC

VARIABLES
    \* ---- utils/oidc/authorize.ts
    loginPc,        \* completeOidcLogin: "idle" | "awaitGrant" | "resolved" | "rejected"
    queryParams,    \* the QueryDict completeOidcLogin was called with
    grantCalls,     \* the calls made to completeAuthorizationCodeGrant, in order
    grantOutcome,   \* how the SDK settled the grant
    loginResult,    \* the value completeOidcLogin resolved with
    startPc,        \* startOidcLogin: "idle" | "awaitUrl" | "resolved" | "rejected"
    nonce,          \* the nonce startOidcLogin generated
    genCalls,       \* the calls made to generateOidcAuthorizationUrl, in order
    genOutcome,     \* how the SDK settled generateOidcAuthorizationUrl
    href,           \* window.location.href
    \* ---- ExportE2eKeysDialog.tsx
    dialogLife,             \* React lifecycle: "constructed" | "mounted" | "unmounted"
    exportUnmounted,        \* this.unmounted
    dialogState,            \* this.state: phase, errStr, passphrase1, passphrase2
    fieldPassword,          \* this.fieldPassword is not null
    fieldPasswordConfirm,   \* this.fieldPasswordConfirm is not null
    focusedField,           \* the field focus() was last called on
    sub,                    \* one record per form submission and the export it starts
    exportRoomKeysCalls,    \* the number of calls to matrixClient.exportRoomKeys
    onFinishedCalls,        \* the number of calls to props.onFinished, per argument
    \* ---- SecureBackupPanel.tsx
    panelLife,              \* React lifecycle: "constructed" | "mounted" | "unmounted"
    backupUnmounted,        \* this.unmounted
    panelState,             \* this.state
    setStateAfterUnmount,   \* this.setState was called after componentWillUnmount
    clientPeg,              \* MatrixClientPeg.get() is not null
    listening,              \* the two CryptoEvent listeners are registered
    checkTask,              \* checkKeyBackupStatus: "none" | "awaiting" | "done"
    loads,                  \* loadBackupStatus calls in flight, per awaited SDK call
    diagTasks,              \* getUpdatedDiagnostics calls in flight
    resetTasks,             \* resetSecretStorage calls awaiting accessSecretStorage
    dialog,                 \* the modal the panel opened: "none" | "delete" | "create"
    deletes,                \* deleteKeyBackupVersion calls in flight, per version
    uncaught,               \* the exceptions thrown out of the panel's callbacks
    proceed                 \* what deleteBackup's onFinished was last called with

oidcVars == <<loginPc, queryParams, grantCalls, grantOutcome, loginResult,
              startPc, nonce, genCalls, genOutcome, href>>

exportVars == <<dialogLife, exportUnmounted, dialogState, fieldPassword,
                fieldPasswordConfirm, focusedField, sub, exportRoomKeysCalls,
                 onFinishedCalls>>

panelVars == <<panelLife, backupUnmounted, panelState, setStateAfterUnmount, clientPeg,
               listening, checkTask, loads, diagTasks, resetTasks, dialog, deletes,
               uncaught, proceed>>

vars == <<oidcVars, exportVars, panelVars>>

\* JavaScript's undefined and null, where a string is expected.
Undefined == "undefined"
Null == "null"

(***************************************************************************)
(*                      utils/oidc/authorize.ts                            *)
(***************************************************************************)

\* A query parameter value: QueryDict maps a key to string | string[] | undefined.
\* An array is modelled by its typeof and the string it would join to.
QueryValues ==
    { [type |-> "undefined", val |-> ""],
      [type |-> "string", val |-> ""],
      [type |-> "string", val |-> "abc"],
      [type |-> "string", val |-> "xyz"],
      [type |-> "object", val |-> ""],          \* []
      [type |-> "object", val |-> "abc"] }      \* ["abc"]

QueryDicts == [code : QueryValues, state : QueryValues]

\* JavaScript truthiness of a query parameter value: undefined and "" are falsy,
\* every array (also the empty one) is truthy.
Truthy(v) ==
    CASE v.type = "undefined" -> FALSE
      [] v.type = "string"    -> v.val # ""
      [] OTHER                -> TRUE

TypeOf(v) == v.type

\* A getCodeAndStateFromQueryParams that checks truthiness only, not typeof.
CodeAndStateThrowsNoTypeof(q) ==
    \/ ~Truthy(q.code)
    \/ ~Truthy(q.state)

\* getCodeAndStateFromQueryParams: TRUE when it throws.
CodeAndStateThrows(q) ==
    \/ ~Truthy(q.code)
    \/ TypeOf(q.code) # "string"
    \/ ~Truthy(q.state)
    \/ TypeOf(q.state) # "string"

\* getCodeAndStateFromQueryParams: what it returns when it does not throw.
getCodeAndStateFromQueryParams(q) == [code |-> q.code, state |-> q.state]

HomeserverUrls == {"https://hs1", "https://hs2"}
IdentityServerUrls == {Undefined, "https://is1"}
AccessTokens == {"token1", "token2"}
ClientIds == {"client1"}
Issuers == {"https://issuer1", "https://issuer2"}

\* What completeAuthorizationCodeGrant resolves with.
GrantResults ==
    [ homeserverUrl : HomeserverUrls,
      identityServerUrl : IdentityServerUrls,
      tokenResponse : [access_token : AccessTokens],
      oidcClientSettings : [clientId : ClientIds, issuer : Issuers] ]

NoGrantResult ==
    [ homeserverUrl |-> Undefined,
      identityServerUrl |-> Undefined,
      tokenResponse |-> [access_token |-> Undefined],
      oidcClientSettings |-> [clientId |-> Undefined, issuer |-> Undefined] ]

NoLoginResult ==
    [ homeserverUrl |-> Undefined, identityServerUrl |-> Undefined,
      accessToken |-> Undefined, clientId |-> Undefined, issuer |-> Undefined ]

NoQuery == [code |-> [type |-> "undefined", val |-> ""],
            state |-> [type |-> "undefined", val |-> ""]]

\* A completeOidcLogin that returns the issuer as clientId and the clientId as issuer.
LoginResultOfSwapped(g) ==
    [ homeserverUrl |-> g.homeserverUrl,
      identityServerUrl |-> g.identityServerUrl,
      accessToken |-> g.tokenResponse.access_token,
      clientId |-> g.oidcClientSettings.issuer,
      issuer |-> g.oidcClientSettings.clientId ]

\* The object completeOidcLogin returns once the grant has resolved with g.
LoginResultOf(g) ==
    [ homeserverUrl |-> g.homeserverUrl,
      identityServerUrl |-> g.identityServerUrl,
      accessToken |-> g.tokenResponse.access_token,
      clientId |-> g.oidcClientSettings.clientId,
      issuer |-> g.oidcClientSettings.issuer ]

\* completeOidcLogin(queryParams), up to its await: the parameters are checked and,
\* when they are valid, completeAuthorizationCodeGrant(code, state) is called.
CompleteOidcLoginCall(q) ==
    /\ loginPc = "idle"
    /\ queryParams' = q
    /\ IF CodeAndStateThrows(q)
       THEN /\ loginPc' = "rejected"
            /\ UNCHANGED grantCalls
       ELSE /\ loginPc' = "awaitGrant"
            /\ grantCalls' = Append(grantCalls, getCodeAndStateFromQueryParams(q))
    /\ UNCHANGED <<grantOutcome, loginResult>>

CompleteOidcLogin ==
    /\ \E q \in QueryDicts : CompleteOidcLoginCall(q)
    /\ UNCHANGED <<startPc, nonce, genCalls, genOutcome, href>>
    /\ UNCHANGED <<exportVars, panelVars>>

\* completeOidcLogin after its await, the grant having settled as `outcome`.
CompleteOidcLoginResume(outcome) ==
    /\ grantOutcome' = outcome
    /\ IF outcome.status = "ok"
       THEN /\ loginPc' = "resolved"
            /\ loginResult' = LoginResultOf(outcome.value)
       ELSE /\ loginPc' = "rejected"
            /\ UNCHANGED loginResult

\* The SDK resolves completeAuthorizationCodeGrant.
GrantResolves ==
    /\ loginPc = "awaitGrant"
    /\ \E g \in GrantResults : CompleteOidcLoginResume([status |-> "ok", value |-> g])
    /\ UNCHANGED <<queryParams, grantCalls>>
    /\ UNCHANGED <<startPc, nonce, genCalls, genOutcome, href>>
    /\ UNCHANGED <<exportVars, panelVars>>

\* The SDK rejects completeAuthorizationCodeGrant.
GrantRejects ==
    /\ loginPc = "awaitGrant"
    /\ CompleteOidcLoginResume([status |-> "fail", value |-> NoGrantResult])
    /\ UNCHANGED <<queryParams, grantCalls>>
    /\ UNCHANGED <<startPc, nonce, genCalls, genOutcome, href>>
    /\ UNCHANGED <<exportVars, panelVars>>

InitialHref == "https://app/#/login"
Origin == "https://app"
Nonces == {"nonce1", "nonce2"}
AuthorizationEndpoints == {"https://auth1/authorize", "https://auth2/authorize"}
\* The URLs generateOidcAuthorizationUrl may resolve with: built by the SDK, opaque here.
AuthorizationUrls == {"https://auth1/authorize?req=1", "https://auth2/authorize?req=2"}

\* The arguments startOidcLogin is called with.
StartArgs ==
    [ metadata : AuthorizationEndpoints,
      clientId : ClientIds,
      homeserverUrl : HomeserverUrls,
      identityServerUrl : IdentityServerUrls ]

\* The object startOidcLogin passes to generateOidcAuthorizationUrl.
AuthParams(a, n) ==
    [ metadata |-> a.metadata,
      redirectUri |-> Origin,
      clientId |-> a.clientId,
      homeserverUrl |-> a.homeserverUrl,
      identityServerUrl |-> a.identityServerUrl,
      nonce |-> n ]

\* startOidcLogin(...), up to its await: the nonce is drawn (randomString(10)) and
\* generateOidcAuthorizationUrl is called with the auth params.
StartOidcLoginCall(a, n) ==
    /\ startPc = "idle"
    /\ nonce' = n
    /\ genCalls' = Append(genCalls, AuthParams(a, n))
    /\ startPc' = "awaitUrl"
    /\ UNCHANGED <<genOutcome, href>>

StartOidcLogin ==
    /\ \E a \in StartArgs, n \in Nonces : StartOidcLoginCall(a, n)
    /\ UNCHANGED <<loginPc, queryParams, grantCalls, grantOutcome, loginResult>>
    /\ UNCHANGED <<exportVars, panelVars>>

\* A startOidcLogin that navigates in a finally block, also when the SDK rejected.
StartOidcLoginResumeAlwaysNavigates(outcome) ==
    /\ genOutcome' = outcome
    /\ href' = IF outcome.status = "ok" THEN outcome.url ELSE Origin
    /\ startPc' = IF outcome.status = "ok" THEN "resolved" ELSE "rejected"

\* startOidcLogin after its await: on a URL it navigates and returns, on a rejection
\* the exception leaves the function before the assignment.
StartOidcLoginResume(outcome) ==
    /\ genOutcome' = outcome
    /\ IF outcome.status = "ok"
       THEN /\ href' = outcome.url
            /\ startPc' = "resolved"
       ELSE /\ UNCHANGED href
            /\ startPc' = "rejected"

\* The SDK resolves generateOidcAuthorizationUrl with a URL.
GenerateUrlResolves ==
    /\ startPc = "awaitUrl"
    /\ \E u \in AuthorizationUrls : StartOidcLoginResume([status |-> "ok", url |-> u])
    /\ UNCHANGED <<nonce, genCalls>>
    /\ UNCHANGED <<loginPc, queryParams, grantCalls, grantOutcome, loginResult>>
    /\ UNCHANGED <<exportVars, panelVars>>

\* The SDK rejects generateOidcAuthorizationUrl.
GenerateUrlRejects ==
    /\ startPc = "awaitUrl"
    /\ StartOidcLoginResume([status |-> "fail", url |-> Undefined])
    /\ UNCHANGED <<nonce, genCalls>>
    /\ UNCHANGED <<loginPc, queryParams, grantCalls, grantOutcome, loginResult>>
    /\ UNCHANGED <<exportVars, panelVars>>

\* The state before either function has been called.
OidcInit ==
    /\ loginPc = "idle"
    /\ queryParams = NoQuery
    /\ grantCalls = <<>>
    /\ grantOutcome = [status |-> "none", value |-> NoGrantResult]
    /\ loginResult = NoLoginResult
    /\ startPc = "idle"
    /\ nonce = Undefined
    /\ genCalls = <<>>
    /\ genOutcome = [status |-> "none", url |-> Undefined]
    /\ href = InitialHref

NextOidc ==
    \/ CompleteOidcLogin
    \/ GrantResolves
    \/ GrantRejects
    \/ StartOidcLogin
    \/ GenerateUrlResolves
    \/ GenerateUrlRejects

(***************************************************************************)
(*                       ExportE2eKeysDialog.tsx                           *)
(***************************************************************************)

\* Bounds of the model: form submissions, and dismissals (Cancel clicks and
\* BaseDialog closes together).
MaxSubmits == 2
MaxDismissals == 1

Submissions == 1..MaxSubmits

\* enum Phase
PhaseEdit == "edit"
PhaseExporting == "exporting"

\* The passphrases a user types, with the score the PassphraseField gives each.
Passphrases == {"", "weak", "Str0ng!phrase"}
\* What a user types in the confirmation field: nothing, or the strong passphrase
\* (equal to passphrase1 or not, by what passphrase1 holds).
Confirmations == {"", "Str0ng!phrase"}
Score(p) == CASE p = "" -> 0 [] p = "weak" -> 1 [] OTHER -> 4
\* minScore={3} of the PassphraseField
MinScore == 3

\* const fieldsInDisplayOrder = [this.fieldPassword, this.fieldPasswordConfirm]
FieldNames == <<"fieldPassword", "fieldPasswordConfirm">>

\* The options verifyFieldsBeforeSubmit passes to field.validate in its loop.
ValidateOptions == [allowEmpty |-> FALSE]

\* field.validate(options) of the PassphraseField (required, then minScore) and of
\* the PassphraseConfirmField (required, then equal to passphrase1), on state st.
FieldValid(name, st, options) ==
    IF name = "fieldPassword"
    THEN IF st.passphrase1 = "" THEN options.allowEmpty
         ELSE Score(st.passphrase1) >= MinScore
    ELSE IF st.passphrase2 = "" THEN options.allowEmpty
         ELSE st.passphrase2 = st.passphrase1

\* What an export step may throw or reject with (the `e` of the .catch callback is
\* not typed): a value with or without friendlyText, null, or undefined.
Errors ==
    [type : {"object"}, friendlyText : {Undefined, "", "Bad passphrase"}]
        \cup {[type |-> "null", friendlyText |-> Undefined],
              [type |-> "undefined", friendlyText |-> Undefined]}
NoError == [type |-> "none", friendlyText |-> Null]

\* Reading a property of e throws a TypeError: e is null or undefined.
PropertyReadThrows(e) == e.type \in {"null", "undefined"}

UnknownError == "Unknown error"
\* const msg = e.friendlyText || _t("Unknown error")
ErrorMessage(e) ==
    IF e.friendlyText = Undefined \/ e.friendlyText = ""
    THEN UnknownError
    ELSE e.friendlyText

\* A submission that has not happened yet.
IdleSub ==
    [ pc |-> "idle",            \* idle | validating | returned | invalid | abandoned |
                                \* queued | keys | encrypt | finished | rejected |
                                \* failed | failedUnmounted | catchThrew
      fields |-> <<FALSE, FALSE>>,  \* fieldsInDisplayOrder: which are not null
      i |-> 0,                  \* the field whose validate() is awaited
      validated |-> <<>>,       \* the validate() calls that resolved, with their result
      invalidFields |-> <<>>,   \* invalidFields
      passphrase |-> "",        \* the passphrase startExport was called with
      steps |-> <<>>,           \* the export steps that completed, in order
      error |-> NoError ]       \* what the chain was rejected with, until it is caught

DialogInit ==
    /\ dialogLife = "constructed"
    /\ exportUnmounted = FALSE
    /\ dialogState = [phase |-> PhaseEdit, errStr |-> Null,
                      passphrase1 |-> "", passphrase2 |-> ""]
    /\ fieldPassword = FALSE
    /\ fieldPasswordConfirm = FALSE
    /\ focusedField = "none"
    /\ sub = [s \in Submissions |-> IdleSub]
    /\ exportRoomKeysCalls = 0
    /\ onFinishedCalls = [a \in {"true", "false", "undefined"} |-> 0]

\* A promise job of the dialog is queued: the continuation of onPassphraseFormSubmit
\* after verifyFieldsBeforeSubmit returned, the first callback of startExport's
\* chain, which follows Promise.resolve(), or the .catch callback of a chain that
\* was rejected. The jobs run before the next event.
JobQueued == \E s \in Submissions : sub[s].pc \in {"returned", "queued", "rejected"}

\* The form is rendered and enabled: disableForm is phase === Phase.Exporting.
\* An event of the user is handled once no promise job is queued.
FormEnabled ==
    /\ dialogLife = "mounted"
    /\ dialogState.phase # PhaseExporting
    /\ ~JobQueued

\* React mounts the dialog: render() runs and both fieldRef callbacks are called.
DialogMount ==
    /\ dialogLife = "constructed"
    /\ dialogLife' = "mounted"
    /\ fieldPassword' = TRUE
    /\ fieldPasswordConfirm' = TRUE
    /\ UNCHANGED <<exportUnmounted, dialogState, focusedField, sub,
                   exportRoomKeysCalls, onFinishedCalls>>
    /\ UNCHANGED <<oidcVars, panelVars>>

\* componentWillUnmount; React then calls the fieldRef callbacks with null.
DialogWillUnmount ==
    /\ dialogLife = "mounted"
    /\ dialogLife' = "unmounted"
    /\ exportUnmounted' = TRUE
    /\ fieldPassword' = FALSE
    /\ fieldPasswordConfirm' = FALSE
    /\ UNCHANGED <<dialogState, focusedField, sub, exportRoomKeysCalls,
                   onFinishedCalls>>
    /\ UNCHANGED <<oidcVars, panelVars>>

\* onPassphraseChange(ev, phrase): the inputs are disabled while exporting.
onPassphraseChange ==
    /\ FormEnabled
    /\ \E phrase \in {"passphrase1", "passphrase2"}, value \in Passphrases :
          /\ phrase = "passphrase2" => value \in Confirmations
          /\ dialogState[phrase] # value
          /\ dialogState' = [dialogState EXCEPT ![phrase] = value]
    /\ UNCHANGED <<dialogLife, exportUnmounted, fieldPassword, fieldPasswordConfirm,
                   focusedField, sub, exportRoomKeysCalls, onFinishedCalls>>
    /\ UNCHANGED <<oidcVars, panelVars>>

\* The next field of fieldsInDisplayOrder after index i that is not null
\* (`if (!field) continue`), 0 when the loop is over.
NextField(fields, i) ==
    IF \E j \in (i + 1)..Len(fields) : fields[j]
    THEN CHOOSE j \in (i + 1)..Len(fields) :
            fields[j] /\ \A k \in (i + 1)..(j - 1) : ~fields[k]
    ELSE 0

\* startExport(passphrase), called by submission s whose record is r: the promise
\* chain is queued (its first callback runs later) and the state goes to Exporting.
startExport(s, r, passphrase) ==
    /\ sub' = [sub EXCEPT ![s] = [r EXCEPT !.pc = "queued", !.passphrase = passphrase]]
    /\ dialogState' = [dialogState EXCEPT !.errStr = Null, !.phase = PhaseExporting]
    /\ UNCHANGED focusedField

\* verifyFieldsBeforeSubmit's loop of submission s, whose record is r, going on after
\* field r.i; past the last field, the end of verifyFieldsBeforeSubmit: it returns
\* whether invalidFields is empty, and onPassphraseFormSubmit, which awaits it, goes
\* on in a later job.
VerifyFieldsLoop(s, r) ==
    LET j == NextField(r.fields, r.i) IN
    IF j # 0
    THEN \* const valid = await field.validate({ allowEmpty: false })
         /\ sub' = [sub EXCEPT ![s] = [r EXCEPT !.pc = "validating", !.i = j]]
         /\ UNCHANGED <<dialogState, focusedField>>
    ELSE IF r.invalidFields = <<>>
    THEN \* return true
         /\ sub' = [sub EXCEPT ![s] = [r EXCEPT !.pc = "returned"]]
         /\ UNCHANGED <<dialogState, focusedField>>
    ELSE \* invalidFields[0].focus(), and it is validated again to show its tooltip;
         \* return false
         /\ sub' = [sub EXCEPT ![s] = [r EXCEPT !.pc = "returned"]]
         /\ focusedField' = r.invalidFields[1]
         /\ UNCHANGED dialogState

\* An onPassphraseFormSubmit without `if (this.unmounted) return`.
FormSubmitResumeNoUnmountedCheck(s, r) ==
    IF r.invalidFields # <<>>
    THEN /\ sub' = [sub EXCEPT ![s] = [r EXCEPT !.pc = "invalid"]]
         /\ UNCHANGED <<dialogState, focusedField>>
    ELSE startExport(s, r, dialogState.passphrase1)

\* onPassphraseFormSubmit of submission s, whose record is r, after its await:
\* verifyFieldsBeforeSubmit returned whether r.invalidFields is empty.
FormSubmitResume(s, r) ==
    IF r.invalidFields # <<>>
    THEN \* if (!(await this.verifyFieldsBeforeSubmit())) return
         /\ sub' = [sub EXCEPT ![s] = [r EXCEPT !.pc = "invalid"]]
         /\ UNCHANGED <<dialogState, focusedField>>
    ELSE IF exportUnmounted
    THEN \* if (this.unmounted) return
         /\ sub' = [sub EXCEPT ![s] = [r EXCEPT !.pc = "abandoned"]]
         /\ UNCHANGED <<dialogState, focusedField>>
    ELSE startExport(s, r, dialogState.passphrase1)

\* onPassphraseFormSubmit, up to its first await. Submissions are numbered in the
\* order they are made.
onPassphraseFormSubmit ==
    /\ FormEnabled
    /\ \E s \in Submissions :
          /\ sub[s].pc = "idle"
          /\ \A t \in 1..(s - 1) : sub[t].pc # "idle"
          /\ VerifyFieldsLoop(s, [sub[s] EXCEPT
                                    !.fields = <<fieldPassword, fieldPasswordConfirm>>])
    /\ UNCHANGED <<dialogLife, exportUnmounted, fieldPassword, fieldPasswordConfirm,
                   exportRoomKeysCalls, onFinishedCalls>>
    /\ UNCHANGED <<oidcVars, panelVars>>

\* The field.validate() submission s awaits resolves, with the verdict on what the
\* field holds by then; the loop goes on.
ValidateSettles ==
    /\ \E s \in Submissions :
          /\ sub[s].pc = "validating"
          /\ LET r == sub[s]
                 valid == FieldValid(FieldNames[r.i], dialogState, ValidateOptions)
                 call == [field |-> FieldNames[r.i],
                          allowEmpty |-> ValidateOptions.allowEmpty,
                          valid |-> valid]
             IN VerifyFieldsLoop(s,
                    [r EXCEPT !.validated = Append(r.validated, call),
                              !.invalidFields =
                                  IF valid THEN r.invalidFields
                                  ELSE Append(r.invalidFields, FieldNames[r.i])])
    /\ UNCHANGED <<dialogLife, exportUnmounted, fieldPassword, fieldPasswordConfirm,
                   exportRoomKeysCalls, onFinishedCalls>>
    /\ UNCHANGED <<oidcVars, panelVars>>

\* The job that goes on with onPassphraseFormSubmit once verifyFieldsBeforeSubmit
\* has returned.
onPassphraseFormSubmitResume ==
    /\ \E s \in Submissions :
          /\ sub[s].pc = "returned"
          /\ FormSubmitResume(s, sub[s])
    /\ UNCHANGED <<dialogLife, exportUnmounted, fieldPassword, fieldPasswordConfirm,
                   exportRoomKeysCalls, onFinishedCalls>>
    /\ UNCHANGED <<oidcVars, panelVars>>

\* A callback of the chain of submission s, whose record is r, throws e, or the
\* promise it waits for rejects with e: the rejection goes down the chain to the
\* .catch callback, which runs in a later job.
ChainRejected(s, r, e) ==
    sub' = [sub EXCEPT ![s] = [r EXCEPT !.pc = "rejected", !.error = e]]

\* The .catch callback of startExport, for the export of submission s whose record
\* is r, called with error e: logger.error, the test of this.unmounted, then
\* e.friendlyText is read, which throws when e is null or undefined, before setState.
ExportCatch(s, r, e) ==
    IF exportUnmounted
    THEN /\ sub' = [sub EXCEPT ![s] = [r EXCEPT !.pc = "failedUnmounted"]]
         /\ UNCHANGED dialogState
    ELSE IF PropertyReadThrows(e)
    THEN /\ sub' = [sub EXCEPT ![s] = [r EXCEPT !.pc = "catchThrew"]]
         /\ UNCHANGED dialogState
    ELSE /\ sub' = [sub EXCEPT ![s] = [r EXCEPT !.pc = "failed"]]
         /\ dialogState' = [dialogState EXCEPT !.errStr = ErrorMessage(e),
                                               !.phase = PhaseEdit]

\* The first callback of the chain: this.props.matrixClient.exportRoomKeys() is
\* called, and returns a promise or throws.
RunExportRoomKeys ==
    /\ \E s \in Submissions :
          /\ sub[s].pc = "queued"
          /\ exportRoomKeysCalls' = exportRoomKeysCalls + 1
          /\ \/ sub' = [sub EXCEPT ![s].pc = "keys"]
             \/ \E e \in Errors : ChainRejected(s, sub[s], e)
    /\ UNCHANGED <<dialogLife, exportUnmounted, dialogState, fieldPassword,
                   fieldPasswordConfirm, focusedField, onFinishedCalls>>
    /\ UNCHANGED <<oidcVars, panelVars>>

\* exportRoomKeys() settles: on the keys, encryptMegolmKeyFile is called.
ExportRoomKeysSettles ==
    /\ \E s \in Submissions :
          /\ sub[s].pc = "keys"
          /\ \/ sub' = [sub EXCEPT ![s].pc = "encrypt",
                                   ![s].steps = Append(@, "exportRoomKeys")]
             \/ \E e \in Errors : ChainRejected(s, sub[s], e)
    /\ UNCHANGED <<dialogLife, exportUnmounted, dialogState, fieldPassword,
                   fieldPasswordConfirm, focusedField, exportRoomKeysCalls,
                   onFinishedCalls>>
    /\ UNCHANGED <<oidcVars, panelVars>>

\* A last callback that calls onFinished(true) in a finally block, also when
\* FileSaver.saveAs threw.
SaveAndFinishAlways(s, r) ==
    \/ /\ sub' = [sub EXCEPT ![s] =
                     [r EXCEPT !.pc = "finished",
                               !.steps = r.steps \o <<"saveAs", "onFinished(true)">>]]
       /\ onFinishedCalls' = [onFinishedCalls EXCEPT !["true"] = @ + 1]
    \/ /\ \E e \in Errors :
             ChainRejected(s, [r EXCEPT !.steps = Append(r.steps, "onFinished(true)")], e)
       /\ onFinishedCalls' = [onFinishedCalls EXCEPT !["true"] = @ + 1]

\* The last callback of the chain, for submission s whose record is r, the file
\* having been encrypted: FileSaver.saveAs, then this.props.onFinished(true).
SaveAndFinish(s, r) ==
    \/ /\ sub' = [sub EXCEPT ![s] =
                     [r EXCEPT !.pc = "finished",
                               !.steps = r.steps \o <<"saveAs", "onFinished(true)">>]]
       /\ onFinishedCalls' = [onFinishedCalls EXCEPT !["true"] = @ + 1]
    \/ /\ \E e \in Errors : ChainRejected(s, r, e)
       /\ UNCHANGED onFinishedCalls

\* encryptMegolmKeyFile settles.
EncryptSettles ==
    /\ \E s \in Submissions :
          /\ sub[s].pc = "encrypt"
          /\ \/ SaveAndFinish(s, [sub[s] EXCEPT
                                    !.steps = Append(@, "encryptMegolmKeyFile")])
             \/ /\ \E e \in Errors : ChainRejected(s, sub[s], e)
                /\ UNCHANGED onFinishedCalls
    /\ UNCHANGED <<dialogLife, exportUnmounted, dialogState, fieldPassword,
                   fieldPasswordConfirm, focusedField, exportRoomKeysCalls>>
    /\ UNCHANGED <<oidcVars, panelVars>>

\* The job of the .catch callback, for a chain that was rejected.
ExportCatches ==
    /\ \E s \in Submissions :
          /\ sub[s].pc = "rejected"
          /\ ExportCatch(s, [sub[s] EXCEPT !.error = NoError], sub[s].error)
    /\ UNCHANGED <<dialogLife, exportUnmounted, fieldPassword, fieldPasswordConfirm,
                   focusedField, exportRoomKeysCalls, onFinishedCalls>>
    /\ UNCHANGED <<oidcVars, panelVars>>

\* onCancelClick: the Cancel button is disabled while exporting.
onCancelClick ==
    /\ FormEnabled
    /\ onFinishedCalls["false"] + onFinishedCalls["undefined"] < MaxDismissals
    /\ onFinishedCalls' = [onFinishedCalls EXCEPT !["false"] = @ + 1]
    /\ UNCHANGED <<dialogLife, exportUnmounted, dialogState, fieldPassword,
                   fieldPasswordConfirm, focusedField, sub, exportRoomKeysCalls>>
    /\ UNCHANGED <<oidcVars, panelVars>>

\* BaseDialog is given props.onFinished and calls it, without an argument, when the
\* user closes the dialog; it is not disabled while exporting.
BaseDialogClose ==
    /\ dialogLife = "mounted"
    /\ ~JobQueued
    /\ onFinishedCalls["false"] + onFinishedCalls["undefined"] < MaxDismissals
    /\ onFinishedCalls' = [onFinishedCalls EXCEPT !["undefined"] = @ + 1]
    /\ UNCHANGED <<dialogLife, exportUnmounted, dialogState, fieldPassword,
                   fieldPasswordConfirm, focusedField, sub, exportRoomKeysCalls>>
    /\ UNCHANGED <<oidcVars, panelVars>>

NextExport ==
    \/ DialogMount
    \/ DialogWillUnmount
    \/ onPassphraseChange
    \/ onPassphraseFormSubmit
    \/ ValidateSettles
    \/ onPassphraseFormSubmitResume
    \/ RunExportRoomKeys
    \/ ExportRoomKeysSettles
    \/ EncryptSettles
    \/ ExportCatches
    \/ onCancelClick
    \/ BaseDialogClose

(***************************************************************************)
(*                        SecureBackupPanel.tsx                            *)
(***************************************************************************)

\* Bounds of the model: loadBackupStatus and resetSecretStorage calls in flight
\* (and, apart, getUpdatedDiagnostics calls in flight), and deleteKeyBackupVersion
\* calls in flight.
MaxInFlight == 2
MaxDeletes == 1

\* An IKeyBackupInfo, named by its version; a TrustInfo, by what it says.
BackupInfos == {"1", "2"}
TrustInfos == {"trusted_locally"}
SessionsRemainingValues == {0, 5}

\* What getUpdatedDiagnostics may find: its five booleans.
DiagnosticsValues ==
    { [backupKeyStored |-> "true", backupKeyCached |-> "true",
       backupKeyWellFormed |-> "true", secretStorageKeyInAccount |-> "true",
       secretStorageReady |-> "true"] }

\* The SDK calls loadBackupStatus awaits: getKeyBackupVersion, then
\* isKeyBackupTrusted(backupInfo) for the backupInfo it got.
LoadStages == {"version"} \cup BackupInfos

TotalLoads(l) == l["version"] + l["1"] + l["2"]

PanelInit ==
    /\ panelLife = "constructed"
    /\ backupUnmounted = FALSE
    /\ panelState = [loading |-> TRUE, error |-> FALSE,
                     backupKeyStored |-> Null, backupKeyCached |-> Null,
                     backupKeyWellFormed |-> Null, secretStorageKeyInAccount |-> Null,
                     secretStorageReady |-> Null,
                     backupInfo |-> Null, backupSigStatus |-> Null,
                     sessionsRemaining |-> 0]
    /\ setStateAfterUnmount = FALSE
    /\ clientPeg = TRUE
    /\ listening = FALSE
    /\ checkTask = "none"
    /\ loads = [st \in LoadStages |-> 0]
    /\ diagTasks = 0
    /\ resetTasks = 0
    /\ dialog = "none"
    /\ deletes = [v \in BackupInfos |-> 0]
    /\ uncaught = {}
    /\ proceed = Null

\* What the panel's functions read and write while they run: the state, the
\* setState-after-unmount mark and the calls left in flight.
PanelM == [state |-> panelState, late |-> setStateAfterUnmount,
           loads |-> loads, diag |-> diagTasks]

Commit(m) ==
    /\ panelState' = m.state
    /\ setStateAfterUnmount' = m.late
    /\ loads' = m.loads
    /\ diagTasks' = m.diag

\* The bounds leave room for the calls m holds in flight, beside the `resets`
\* resetSecretStorage calls.
Fits(m, resets) == TotalLoads(m.loads) + resets <= MaxInFlight /\ m.diag <= MaxInFlight

\* this.setState(upd). React drops an update of an unmounted component.
SetState(m, upd) ==
    [m EXCEPT !.state = IF backupUnmounted
                        THEN @
                        ELSE [f \in DOMAIN @ |-> IF f \in DOMAIN upd THEN upd[f] ELSE @[f]],
              !.late = @ \/ backupUnmounted]

\* getUpdatedDiagnostics(), up to its first await: MatrixClientPeg.safeGet() throws
\* without a client, which rejects the promise nobody awaits.
getUpdatedDiagnostics(m) ==
    IF clientPeg THEN [m EXCEPT !.diag = @ + 1] ELSE m

ErrorUpdate == [loading |-> FALSE, error |-> TRUE, backupInfo |-> Null,
                backupSigStatus |-> Null]

\* The catch block of loadBackupStatus.
LoadCatch(m) == IF backupUnmounted THEN m ELSE SetState(m, ErrorUpdate)

\* loadBackupStatus(), up to its first await.
loadBackupStatus(m) ==
    LET m1 == getUpdatedDiagnostics(SetState(m, [loading |-> TRUE])) IN
    IF clientPeg
    THEN [m1 EXCEPT !.loads["version"] = @ + 1]
    ELSE LoadCatch(m1)

\* componentDidMount: checkKeyBackupStatus() runs up to its await, and the two
\* listeners are registered.
componentDidMount ==
    /\ panelLife = "constructed"
    /\ clientPeg
    /\ panelLife' = "mounted"
    /\ Commit(getUpdatedDiagnostics(PanelM))
    /\ checkTask' = "awaiting"
    /\ listening' = TRUE
    /\ UNCHANGED <<backupUnmounted, clientPeg, resetTasks, dialog, deletes, uncaught,
                   proceed>>
    /\ UNCHANGED <<oidcVars, exportVars>>

\* componentWillUnmount: the listeners are removed if there still is a client.
componentWillUnmount ==
    /\ panelLife = "mounted"
    /\ panelLife' = "unmounted"
    /\ backupUnmounted' = TRUE
    /\ listening' = IF clientPeg THEN FALSE ELSE listening
    /\ UNCHANGED <<panelState, setStateAfterUnmount, clientPeg, checkTask, loads,
                   diagTasks, resetTasks, dialog, deletes, uncaught, proceed>>
    /\ UNCHANGED <<oidcVars, exportVars>>

\* The client is unset (logout) while the panel is mounted.
ClientUnset ==
    /\ panelLife = "mounted"
    /\ clientPeg
    /\ clientPeg' = FALSE
    /\ UNCHANGED <<panelLife, backupUnmounted, panelState, setStateAfterUnmount,
                   listening, checkTask, loads, diagTasks, resetTasks, dialog,
                   deletes, uncaught, proceed>>
    /\ UNCHANGED <<oidcVars, exportVars>>

\* onKeyBackupSessionsRemaining(sessionsRemaining)
onKeyBackupSessionsRemaining ==
    /\ listening
    /\ \E n \in SessionsRemainingValues :
          /\ n # panelState.sessionsRemaining
          /\ Commit(SetState(PanelM, [sessionsRemaining |-> n]))
    /\ UNCHANGED <<panelLife, backupUnmounted, clientPeg, listening, checkTask,
                   resetTasks, dialog, deletes, uncaught, proceed>>
    /\ UNCHANGED <<oidcVars, exportVars>>

\* onKeyBackupStatus()
onKeyBackupStatus ==
    /\ listening
    /\ Fits(loadBackupStatus(PanelM), resetTasks)
    /\ Commit(loadBackupStatus(PanelM))
    /\ UNCHANGED <<panelLife, backupUnmounted, clientPeg, listening, checkTask,
                   resetTasks, dialog, deletes, uncaught, proceed>>
    /\ UNCHANGED <<oidcVars, exportVars>>

\* checkKeyBackup() resolves, with null or with a backupInfo and its trustInfo:
\* checkKeyBackupStatus sets the state, without looking at this.unmounted.
CheckKeyBackupResolves ==
    /\ checkTask = "awaiting"
    /\ checkTask' = "done"
    /\ \E info \in {Null} \cup BackupInfos, trust \in {Null} \cup TrustInfos :
          /\ (info = Null) = (trust = Null)
          /\ Commit(SetState(PanelM, [loading |-> FALSE, error |-> FALSE,
                                      backupInfo |-> info, backupSigStatus |-> trust]))
    /\ UNCHANGED <<panelLife, backupUnmounted, clientPeg, listening, resetTasks,
                   dialog, deletes, uncaught, proceed>>
    /\ UNCHANGED <<oidcVars, exportVars>>

\* checkKeyBackup() rejects: the catch block of checkKeyBackupStatus.
CheckKeyBackupRejects ==
    /\ checkTask = "awaiting"
    /\ checkTask' = "done"
    /\ Commit(IF backupUnmounted THEN PanelM ELSE SetState(PanelM, ErrorUpdate))
    /\ UNCHANGED <<panelLife, backupUnmounted, clientPeg, listening, resetTasks,
                   dialog, deletes, uncaught, proceed>>
    /\ UNCHANGED <<oidcVars, exportVars>>

\* A getUpdatedDiagnostics() call ends: with its five answers, which it sets unless
\* unmounted, or without any (no crypto, or an SDK call rejected).
DiagnosticsSettle ==
    /\ diagTasks > 0
    /\ \/ \E d \in DiagnosticsValues :
             Commit(IF backupUnmounted
                    THEN [PanelM EXCEPT !.diag = @ - 1]
                    ELSE SetState([PanelM EXCEPT !.diag = @ - 1], d))
       \/ Commit([PanelM EXCEPT !.diag = @ - 1])
    /\ UNCHANGED <<panelLife, backupUnmounted, clientPeg, listening, checkTask,
                   resetTasks, dialog, deletes, uncaught, proceed>>
    /\ UNCHANGED <<oidcVars, exportVars>>

\* loadBackupStatus after getKeyBackupVersion() resolved with backupInfo `info`,
\* m being without that call.
LoadGotVersion(m, info) ==
    IF info = Null
    THEN IF backupUnmounted THEN m
         ELSE SetState(m, [loading |-> FALSE, error |-> FALSE,
                           backupInfo |-> Null, backupSigStatus |-> Null])
    ELSE IF clientPeg
    THEN [m EXCEPT !.loads[info] = @ + 1]
    ELSE LoadCatch(m)

\* getKeyBackupVersion() settles for one loadBackupStatus call.
GetKeyBackupVersionSettles ==
    /\ loads["version"] > 0
    /\ LET m == [PanelM EXCEPT !.loads["version"] = @ - 1] IN
          \/ \E info \in {Null} \cup BackupInfos : Commit(LoadGotVersion(m, info))
          \/ Commit(LoadCatch(m))
    /\ UNCHANGED <<panelLife, backupUnmounted, clientPeg, listening, checkTask,
                   resetTasks, dialog, deletes, uncaught, proceed>>
    /\ UNCHANGED <<oidcVars, exportVars>>

\* isKeyBackupTrusted(backupInfo) settles for one loadBackupStatus call.
IsKeyBackupTrustedSettles ==
    /\ \E info \in BackupInfos :
          /\ loads[info] > 0
          /\ LET m == [PanelM EXCEPT !.loads[info] = @ - 1] IN
                \/ \E trust \in TrustInfos :
                      Commit(IF backupUnmounted THEN m
                             ELSE SetState(m, [loading |-> FALSE, error |-> FALSE,
                                               backupInfo |-> info,
                                               backupSigStatus |-> trust]))
                \/ Commit(LoadCatch(m))
    /\ UNCHANGED <<panelLife, backupUnmounted, clientPeg, listening, checkTask,
                   resetTasks, dialog, deletes, uncaught, proceed>>
    /\ UNCHANGED <<oidcVars, exportVars>>

\* render() got to the end: its backupInfo branch calls MatrixClientPeg.safeGet().
Rendered ==
    /\ panelLife = "mounted"
    /\ (panelState.error \/ panelState.loading \/ panelState.backupInfo = Null \/ clientPeg)

\* render() shows the "Delete Backup" button (secure backup is taken not to be
\* required by the homeserver's well-known).
DeleteButtonShown ==
    /\ Rendered
    /\ ~panelState.error
    /\ ~panelState.loading
    /\ panelState.backupInfo # Null

\* render() shows the "Set up" button.
SetUpButtonShown ==
    /\ Rendered
    /\ ~panelState.error
    /\ ~panelState.loading
    /\ panelState.backupInfo = Null

\* render() shows the "Reset" button.
ResetButtonShown ==
    /\ Rendered
    /\ panelState.secretStorageKeyInAccount = "true"

\* deleteBackup: the QuestionDialog is opened. A modal covers the panel's buttons.
deleteBackup ==
    /\ DeleteButtonShown
    /\ dialog = "none"
    /\ deletes["1"] + deletes["2"] < MaxDeletes
    /\ dialog' = "delete"
    /\ UNCHANGED <<panelLife, backupUnmounted, panelState, setStateAfterUnmount,
                   clientPeg, listening, checkTask, loads, diagTasks, resetTasks,
                   deletes, uncaught, proceed>>
    /\ UNCHANGED <<oidcVars, exportVars>>

\* The onFinished callback of deleteBackup's dialog, called with proceed true, on m:
\* what it leaves of m, the version it calls deleteKeyBackupVersion with (if it gets
\* to the call) and the exception it throws (if any).
DeleteConfirmed(m) ==
    LET m1 == SetState(m, [loading |-> TRUE]) IN
    IF ~clientPeg
    THEN [m |-> m1, call |-> {}, thrown |-> {"Error: MatrixClientPeg.safeGet"}]
    ELSE IF m1.state.backupInfo = Null
    THEN [m |-> m1, call |-> {}, thrown |-> {"TypeError: backupInfo is null"}]
    ELSE [m |-> m1, call |-> {m1.state.backupInfo}, thrown |-> {}]

\* The QuestionDialog finishes: onFinished(proceed).
DeleteDialogFinished ==
    /\ dialog = "delete"
    /\ dialog' = "none"
    /\ \/ /\ proceed' = "false"                      \* if (!proceed) return
          /\ Commit(PanelM)
          /\ UNCHANGED <<deletes, uncaught>>
       \/ LET r == DeleteConfirmed(PanelM) IN
             /\ proceed' = "true"
             /\ Commit(r.m)
             /\ deletes' = [v \in BackupInfos |->
                               IF v \in r.call THEN deletes[v] + 1 ELSE deletes[v]]
             /\ uncaught' = uncaught \cup r.thrown
    /\ UNCHANGED <<panelLife, backupUnmounted, clientPeg, listening, checkTask,
                   resetTasks>>
    /\ UNCHANGED <<oidcVars, exportVars>>

\* deleteKeyBackupVersion resolves: .then(() => this.loadBackupStatus()).
DeleteResolves ==
    /\ \E v \in BackupInfos :
          /\ deletes[v] > 0
          /\ deletes' = [deletes EXCEPT ![v] = @ - 1]
    /\ Fits(loadBackupStatus(PanelM), resetTasks)
    /\ Commit(loadBackupStatus(PanelM))
    /\ UNCHANGED <<panelLife, backupUnmounted, clientPeg, listening, checkTask,
                   resetTasks, dialog, uncaught, proceed>>
    /\ UNCHANGED <<oidcVars, exportVars>>

\* deleteKeyBackupVersion rejects: nothing handles it.
DeleteRejects ==
    /\ \E v \in BackupInfos :
          /\ deletes[v] > 0
          /\ deletes' = [deletes EXCEPT ![v] = @ - 1]
    /\ UNCHANGED <<panelLife, backupUnmounted, panelState, setStateAfterUnmount,
                   clientPeg, listening, checkTask, loads, diagTasks, resetTasks,
                   dialog, uncaught, proceed>>
    /\ UNCHANGED <<oidcVars, exportVars>>

\* startNewBackup: the CreateKeyBackupDialog is opened.
startNewBackup ==
    /\ SetUpButtonShown
    /\ dialog = "none"
    /\ dialog' = "create"
    /\ UNCHANGED <<panelLife, backupUnmounted, panelState, setStateAfterUnmount,
                   clientPeg, listening, checkTask, loads, diagTasks, resetTasks,
                   deletes, uncaught, proceed>>
    /\ UNCHANGED <<oidcVars, exportVars>>

\* The CreateKeyBackupDialog finishes: onFinished calls loadBackupStatus().
CreateDialogFinished ==
    /\ dialog = "create"
    /\ dialog' = "none"
    /\ Fits(loadBackupStatus(PanelM), resetTasks)
    /\ Commit(loadBackupStatus(PanelM))
    /\ UNCHANGED <<panelLife, backupUnmounted, clientPeg, listening, checkTask,
                   resetTasks, deletes, uncaught, proceed>>
    /\ UNCHANGED <<oidcVars, exportVars>>

\* resetSecretStorage, up to its await of accessSecretStorage.
resetSecretStorage ==
    /\ ResetButtonShown
    /\ dialog = "none"
    /\ TotalLoads(loads) + resetTasks < MaxInFlight
    /\ resetTasks' = resetTasks + 1
    /\ Commit(SetState(PanelM, [error |-> FALSE]))
    /\ UNCHANGED <<panelLife, backupUnmounted, clientPeg, listening, checkTask,
                   dialog, deletes, uncaught, proceed>>
    /\ UNCHANGED <<oidcVars, exportVars>>

\* resetSecretStorage after accessSecretStorage settled, rejected or not, on m.
ResetResume(m, rejected) ==
    IF backupUnmounted THEN m
    ELSE loadBackupStatus(IF rejected THEN SetState(m, [error |-> TRUE]) ELSE m)

\* accessSecretStorage settles for one resetSecretStorage call.
AccessSecretStorageSettles ==
    /\ resetTasks > 0
    /\ resetTasks' = resetTasks - 1
    /\ \E rejected \in BOOLEAN :
          /\ Fits(ResetResume(PanelM, rejected), resetTasks - 1)
          /\ Commit(ResetResume(PanelM, rejected))
    /\ UNCHANGED <<panelLife, backupUnmounted, clientPeg, listening, checkTask,
                   dialog, deletes, uncaught, proceed>>
    /\ UNCHANGED <<oidcVars, exportVars>>

NextBackup ==
    \/ componentDidMount
    \/ componentWillUnmount
    \/ ClientUnset
    \/ onKeyBackupSessionsRemaining
    \/ onKeyBackupStatus
    \/ CheckKeyBackupResolves
    \/ CheckKeyBackupRejects
    \/ DiagnosticsSettle
    \/ GetKeyBackupVersionSettles
    \/ IsKeyBackupTrustedSettles
    \/ deleteBackup
    \/ DeleteDialogFinished
    \/ DeleteResolves
    \/ DeleteRejects
    \/ startNewBackup
    \/ CreateDialogFinished
    \/ resetSecretStorage
    \/ AccessSecretStorageSettles

Init == OidcInit /\ DialogInit /\ PanelInit

SpecOidc == Init /\ [][NextOidc]_vars

SpecExport == Init /\ [][NextExport]_vars

SpecBackup == Init /\ [][NextBackup]_vars

(***************************************************************************)
(*                 Properties of utils/oidc/authorize.ts                   *)
(***************************************************************************)

IsNonEmptyString(v) == v.type = "string" /\ v.val # ""

\* C1: completeOidcLogin rejects whenever `code` or `state` is missing, empty or not
\* a string, and then completeAuthorizationCodeGrant is never called; the grant is
\* only ever called with a non-empty string code and a non-empty string state.
C1_InvalidParamsRejectWithoutGrant ==
    /\ ( /\ loginPc # "idle"
         /\ ~(IsNonEmptyString(queryParams.code) /\ IsNonEmptyString(queryParams.state)) )
       => (loginPc = "rejected" /\ grantCalls = <<>>)
    /\ \A i \in 1..Len(grantCalls) :
          /\ IsNonEmptyString(grantCalls[i].code)
          /\ IsNonEmptyString(grantCalls[i].state)
          /\ grantCalls[i].code = queryParams.code
          /\ grantCalls[i].state = queryParams.state

\* C1's case: called with an array as `code` and a good `state`, it has rejected.
C1_Witness ==
    /\ loginPc = "rejected"
    /\ queryParams.code.type = "object"
    /\ IsNonEmptyString(queryParams.state)
    /\ grantCalls = <<>>

\* C2: completeOidcLogin resolves only when the grant resolved, and then with the
\* grant's homeserverUrl and identityServerUrl, tokenResponse.access_token as
\* accessToken, and oidcClientSettings' clientId and issuer; when the grant rejects,
\* completeOidcLogin rejects and no access token is returned.
C2_ResolvesWithGrantResult ==
    /\ loginPc = "resolved" =>
          /\ grantOutcome.status = "ok"
          /\ loginResult.homeserverUrl = grantOutcome.value.homeserverUrl
          /\ loginResult.identityServerUrl = grantOutcome.value.identityServerUrl
          /\ loginResult.accessToken = grantOutcome.value.tokenResponse.access_token
          /\ loginResult.clientId = grantOutcome.value.oidcClientSettings.clientId
          /\ loginResult.issuer = grantOutcome.value.oidcClientSettings.issuer
    /\ grantOutcome.status = "fail" => loginPc = "rejected"
    /\ loginPc # "resolved" => loginResult = NoLoginResult

\* C2's case: the grant resolved, without an identity server, and the login resolved.
C2_Witness ==
    /\ loginPc = "resolved"
    /\ grantOutcome.status = "ok"
    /\ loginResult.accessToken = "token2"
    /\ loginResult.identityServerUrl = Undefined

\* C3: window.location.href is assigned only after generateOidcAuthorizationUrl has
\* resolved, and with the URL it resolved with; startOidcLogin has resolved only
\* once that is done; when the generation rejects, startOidcLogin rejects and href
\* is as it was.
C3_NavigatesAfterUrlGenerated ==
    /\ href # InitialHref => (genOutcome.status = "ok" /\ href = genOutcome.url)
    /\ startPc = "resolved" => (genOutcome.status = "ok" /\ href = genOutcome.url)
    /\ genOutcome.status = "fail" => (startPc = "rejected" /\ href = InitialHref)
    /\ startPc = "rejected" => genOutcome.status = "fail"

\* C3's case: the SDK resolved with a URL and startOidcLogin has navigated to it.
C3_Witness ==
    /\ startPc = "resolved"
    /\ genOutcome = [status |-> "ok", url |-> "https://auth2/authorize?req=2"]
    /\ href = "https://auth2/authorize?req=2"

(***************************************************************************)
(*                  Properties of ExportE2eKeysDialog.tsx                  *)
(***************************************************************************)

\* The submissions in `pcs`.
SubsAt(pcs) == {s \in Submissions : sub[s].pc \in pcs}

\* Submission s reaches one of `pcs` in this step.
Enters(s, pcs) == sub[s].pc \notin pcs /\ sub'[s].pc \in pcs

\* The states of a submission whose export was started (startExport was called).
ExportStarted ==
    {"queued", "keys", "encrypt", "finished", "rejected", "failed", "failedUnmounted",
     "catchThrew"}
\* The states of a submission whose export failed: its chain was rejected, and then
\* the .catch callback has run.
ExportFailed == {"rejected", "failed", "failedUnmounted", "catchThrew"}
ExportCaught == {"failed", "failedUnmounted", "catchThrew"}

AllExportSteps == <<"exportRoomKeys", "encryptMegolmKeyFile", "saveAs", "onFinished(true)">>

C5_State ==
    /\ onFinishedCalls["true"] = Cardinality(SubsAt({"finished"}))
    /\ \A s \in Submissions :
          /\ sub[s].pc = "finished" => sub[s].steps = AllExportSteps
          /\ sub[s].pc # "finished" =>
                \A k \in 1..Len(sub[s].steps) : sub[s].steps[k] # "onFinished(true)"

C5_Step ==
    /\ onFinishedCalls'["false"] # onFinishedCalls["false"] =>
          /\ onFinishedCalls' = [onFinishedCalls EXCEPT !["false"] = @ + 1]
          /\ exportRoomKeysCalls' = exportRoomKeysCalls
          /\ sub' = sub
    /\ \A s \in Submissions :
          /\ (sub'[s].pc \in ExportFailed /\ sub'[s] # sub[s]) =>
                onFinishedCalls' = onFinishedCalls
          /\ Enters(s, {"finished"}) =>
                /\ sub[s].pc = "encrypt"
                /\ onFinishedCalls' = [onFinishedCalls EXCEPT !["true"] = @ + 1]

\* C5: onFinished(true) is called only once exportRoomKeys, encryptMegolmKeyFile and
\* FileSaver.saveAs have completed, in that order, and once per export; a Cancel click
\* calls onFinished(false) and starts no export; a failed export calls no onFinished.
C5_FinishedOnlyAfterSuccessfulExport == [] C5_State /\ [][C5_Step]_vars

\* C5's case: one export was saved and reported, another failed, Cancel was clicked.
C5_Witness ==
    /\ \E s, t \in Submissions : sub[s].pc = "finished" /\ sub[t].pc \in ExportCaught
    /\ onFinishedCalls["true"] = 1
    /\ onFinishedCalls["false"] = 1

\* Every field of the submission that was mounted was validated with allowEmpty
\* false and found valid, and no validation of it failed.
AllFieldsValidated(r) ==
    /\ \A j \in 1..Len(FieldNames) :
          r.fields[j] =>
             \E k \in 1..Len(r.validated) :
                r.validated[k] = [field |-> FieldNames[j], allowEmpty |-> FALSE,
                                  valid |-> TRUE]
    /\ \A k \in 1..Len(r.validated) : r.validated[k].valid /\ ~r.validated[k].allowEmpty

C6_State ==
    /\ \A s \in SubsAt(ExportStarted) : AllFieldsValidated(sub[s])
    /\ exportRoomKeysCalls = Cardinality(SubsAt(ExportStarted \ {"queued"}))

C6_Step ==
    /\ \A s \in Submissions :
          /\ Enters(s, ExportStarted) =>
                /\ ~exportUnmounted
                /\ AllFieldsValidated(sub'[s])
                /\ dialogState'.phase = PhaseExporting
          /\ Enters(s, {"invalid", "abandoned"}) =>
                /\ dialogState' = dialogState
                /\ exportRoomKeysCalls' = exportRoomKeysCalls
                /\ \/ exportUnmounted
                   \/ ~AllFieldsValidated(sub'[s])
    /\ (dialogState.phase = PhaseEdit /\ dialogState'.phase = PhaseExporting) =>
          \E s \in Submissions : Enters(s, ExportStarted)
    /\ exportRoomKeysCalls' # exportRoomKeysCalls =>
          \E s \in Submissions : sub[s].pc = "queued" /\ sub'[s].pc # "queued"

\* C6: a submission starts an export (and exportRoomKeys is called for it) only if
\* every mounted passphrase field validated with allowEmpty false and the dialog was
\* not unmounted meanwhile; a submission that fails either test starts no export and
\* leaves the state alone, and the phase leaves Edit only when an export is started.
C6_ExportOnlyAfterValidation == [] C6_State /\ [][C6_Step]_vars

\* C6's case: one submission was validated and its export started, another was
\* validated as well but found the dialog unmounted by then.
C6_Witness ==
    \E s, t \in Submissions :
        /\ sub[s].pc = "keys"
        /\ sub[t].pc = "abandoned"
        /\ Len(sub[t].validated) = 2

\* What the claim has the dialog show for error e.
FriendlyTextOrUnknown(e) ==
    IF e.type = "object" /\ e.friendlyText \notin {Undefined, ""}
    THEN e.friendlyText
    ELSE "Unknown error"

C7_Step ==
    \A s \in Submissions :
        \* the chain is rejected: nothing is shown yet
        /\ Enters(s, {"rejected"}) =>
              /\ sub[s].pc \in {"queued", "keys", "encrypt"}
              /\ dialogState' = dialogState
        \* the .catch callback runs, with what the chain was rejected with
        /\ (sub[s].pc = "rejected" /\ sub'[s].pc # "rejected") =>
              /\ IF exportUnmounted
                 THEN dialogState' = dialogState
                 ELSE /\ dialogState'.phase = PhaseEdit
                      /\ dialogState'.errStr = FriendlyTextOrUnknown(sub[s].error)
                      /\ dialogState'.errStr \notin {Null, Undefined, ""}

\* C7: when an export fails at any step, also by exportRoomKeys throwing, the error
\* goes to the .catch callback (startExport has returned long before): with the
\* dialog mounted the state becomes phase Edit and errStr the error's friendlyText,
\* or "Unknown error" when it has none, never null; with the dialog unmounted the
\* state is not changed.
C7_FailedExportReturnsToEdit == [][C7_Step]_vars

\* C10: at most one export is in flight: exportRoomKeys is not called again while an
\* earlier call's export has neither failed nor finished.
C10_AtMostOneExportInFlight == Cardinality(SubsAt({"keys", "encrypt"})) <= 1

(***************************************************************************)
(*                   Properties of SecureBackupPanel.tsx                   *)
(***************************************************************************)

\* C8: no setState is performed after componentWillUnmount has run.
C8_NoSetStateAfterUnmount == ~setStateAfterUnmount

\* C9: when the confirmation callback of deleteBackup gets to its call of
\* deleteKeyBackupVersion, state.backupInfo is not null: the non-null assertion on
\* backupInfo.version never fails.
C9_BackupInfoNonNullAtDelete == "TypeError: backupInfo is null" \notin uncaught

\* The QuestionDialog of deleteBackup finishes in this step.
DeleteDialogFinishes == dialog = "delete" /\ dialog' = "none"

\* A deleteKeyBackupVersion call settles in this step.
DeletionSettles == \E v \in BackupInfos : deletes'[v] < deletes[v]

\* C11, without proceed: nothing is deleted and no state changes.
C11_NoProceed ==
    (DeleteDialogFinishes /\ proceed' = "false") =>
        UNCHANGED <<panelState, deletes, loads, diagTasks, resetTasks, checkTask,
                    uncaught>>

\* C11, on confirmation: loading is set to true, deleteKeyBackupVersion is called
\* once, with the version of the backupInfo in state, and loadBackupStatus is not
\* started yet.
C11_Confirmed ==
    (DeleteDialogFinishes /\ proceed' = "true") =>
        /\ panelState' = [panelState EXCEPT !.loading = TRUE]
        /\ panelState.backupInfo \in BackupInfos
        /\ deletes' = [deletes EXCEPT ![panelState.backupInfo] = @ + 1]
        /\ uncaught' = uncaught
        /\ UNCHANGED <<loads, diagTasks>>

\* C11, afterwards: loadBackupStatus is started in the step in which the deletion
\* resolves; a deletion that rejects starts nothing.
C11_LoadAfterDeletion ==
    DeletionSettles =>
        \/ Commit(loadBackupStatus(PanelM))
        \/ UNCHANGED <<panelState, setStateAfterUnmount, loads, diagTasks>>

C11_Step == C11_NoProceed /\ C11_Confirmed /\ C11_LoadAfterDeletion

\* C11: deleteBackup deletes nothing and changes no state when its dialog finishes
\* without proceed; when the user confirms, loading is set to true,
\* deleteKeyBackupVersion is called with the version of the backupInfo in state, and
\* loadBackupStatus is started only once the deletion has resolved.
C11_DeleteBackupSequencing == [][C11_Step]_vars

====
